---- MODULE Spec2Model ----
(***************************************************************************)
(* Model of nemo/lightning/io/pl.py: MegatronCheckpointIO (save, load,     *)
(* remove), ckpt_to_dir, is_distributed_ckpt, _fix_tensors_device and      *)
(* TrainerContext.from_trainer.                                            *)
(*                                                                         *)
(* A path string is a sequence of tokens.  The token "ckpt" stands for the *)
(* four letters c,k,p,t of the marker extension, "a" for any other         *)
(* character of a file name, "." for the dot and "/" for the separator.    *)
(* A pathlib.Path is the record [anchor, parts] that PurePosixPath keeps.  *)
(***************************************************************************)
EXTENDS Naturals, Sequences, FiniteSets

VARIABLES
    fs,                     \* the filesystem: node -> "absent" | "file" | "dir" | "ckpt"
    content,                \* what the backend has written in each complete checkpoint
    save_ckpt_format,       \* MegatronCheckpointIO.save_ckpt_format
    save_sharded_strategy,  \* MegatronCheckpointIO.save_sharded_strategy
    pre,                    \* [fs, content] as they were when the last call started
    repeated,               \* the last call repeats the one before, which returned
    last,                   \* the last call: its arguments, collaborator calls, outcome
    scen,                   \* progress of the end-to-end scenario (history variable)
    filepath,               \* argument of a ckpt_to_dir call
    checkpoint_dir,         \* outcome of that call
    ckpt,                   \* argument of a _fix_tensors_device call
    cuda,                   \* accelerator runtime of the calling process
    fixed,                  \* outcome of that call
    trainer,                \* argument of a TrainerContext.from_trainer call
    context,                \* outcome of that call
    race,                   \* the operation and path that concurrent processes call
    proc                    \* each such process: where it is in the call, what it did

storeVars == <<fs, content, save_ckpt_format, save_sharded_strategy, pre, repeated, last, scen>>
pathVars == <<filepath, checkpoint_dir>>
fixVars == <<ckpt, cuda, fixed>>
ctxVars == <<trainer, context>>
raceVars == <<race, proc>>
vars == <<storeVars, pathVars, fixVars, ctxVars, raceVars>>

----------------------------------------------------------------------------
(* Bounds of the model. *)

\* longest path string given to ckpt_to_dir, in tokens
MaxLen == 5
\* accelerator devices of the node: cuda:0 .. cuda:(NumDevices - 1)
NumDevices == 2
\* processes that call the store on the same path at the same time
NumProcs == 2

----------------------------------------------------------------------------
(* pathlib: parsing, name, suffix, stem, with_suffix, with_name, str.      *)

Sep == "/"
Dot == "."
Marker == <<".", "ckpt">>
Token == {"a", ".", "ckpt", "/"}

NoExc == "none"
Ok(p) == [exc |-> NoExc, path |-> p]
Raised(e) == [exc |-> e]

RECURSIVE LeadingSeps(_)
LeadingSeps(s) ==
    IF s # <<>> /\ Head(s) = Sep THEN 1 + LeadingSeps(Tail(s)) ELSE 0

\* posix splitroot: exactly two leading slashes are kept, any other number is one
Anchor(s) ==
    LET n == LeadingSeps(s)
    IN  IF n = 0 THEN <<>> ELSE IF n = 2 THEN <<Sep, Sep>> ELSE <<Sep>>

\* the components between separators, without the empty ones and the "." ones
RECURSIVE SplitParts(_, _, _)
SplitParts(s, cur, acc) ==
    LET keep == IF cur = <<>> \/ cur = <<Dot>> THEN acc ELSE Append(acc, cur)
    IN  IF s = <<>> THEN keep
        ELSE IF Head(s) = Sep THEN SplitParts(Tail(s), <<>>, keep)
        ELSE SplitParts(Tail(s), Append(cur, Head(s)), acc)

\* Path(filepath)
Path(s) == [anchor |-> Anchor(s), parts |-> SplitParts(s, <<>>, <<>>)]

RECURSIVE JoinParts(_)
JoinParts(parts) ==
    IF parts = <<>> THEN <<>>
    ELSE IF Len(parts) = 1 THEN parts[1]
    ELSE parts[1] \o <<Sep>> \o JoinParts(Tail(parts))

\* str(path)
Str(p) ==
    IF p.anchor = <<>> /\ p.parts = <<>> THEN <<Dot>>
    ELSE p.anchor \o JoinParts(p.parts)

\* path.name
Name(p) == IF p.parts = <<>> THEN <<>> ELSE p.parts[Len(p.parts)]

\* name.rfind('.'), 1-based, 0 when there is no dot
RFindDot(name) ==
    LET dots == {i \in 1..Len(name) : name[i] = Dot}
    IN  IF dots = {} THEN 0 ELSE CHOOSE i \in dots : \A j \in dots : j <= i

\* the dot that starts the suffix: neither the first nor the last character
HasSuffix(name) == RFindDot(name) > 1 /\ RFindDot(name) < Len(name)

\* path.suffix
NameSuffix(name) ==
    IF HasSuffix(name) THEN SubSeq(name, RFindDot(name), Len(name)) ELSE <<>>
Suffix(p) == NameSuffix(Name(p))

\* path.stem
NameStem(name) ==
    IF HasSuffix(name) THEN SubSeq(name, 1, RFindDot(name) - 1) ELSE name
Stem(p) == NameStem(Name(p))

ReplaceName(p, name) ==
    [p EXCEPT !.parts = SubSeq(p.parts, 1, Len(p.parts) - 1) \o <<name>>]

\* path.with_suffix(suffix), for a suffix that starts with a dot
with_suffix(p, suffix) ==
    IF Name(p) = <<>> THEN Raised("ValueError")
    ELSE IF Suffix(p) = <<>> THEN Ok(ReplaceName(p, Name(p) \o suffix))
    ELSE Ok(ReplaceName(p, SubSeq(Name(p), 1, Len(Name(p)) - Len(Suffix(p))) \o suffix))

\* path.with_name(name), for a name without separator: "." parses to no part
with_name(p, name) ==
    IF Name(p) = <<>> THEN Raised("ValueError")
    ELSE IF name = <<>> \/ name = <<Dot>> THEN Raised("ValueError")
    ELSE Ok(ReplaceName(p, name))

----------------------------------------------------------------------------
(* ckpt_to_dir *)

\* faulty variant: the marker is not appended
Normalized_no_append(s) == Ok(Path(s))

\* the path after the append step (lines 178-180)
Normalized(s) ==
    IF Suffix(Path(s)) # Marker
        THEN with_suffix(Path(s), Suffix(Path(s)) \o Marker)
        ELSE Ok(Path(s))

\* faulty variant: the directory name loses one extension more than the marker
ckpt_to_dir_drop_suffix(s) ==
    LET n == Normalized(s)
    IN  IF n.exc # NoExc THEN n
        ELSE IF Suffix(n.path) # Marker THEN Raised("AssertionError")
        ELSE with_name(n.path, NameStem(NameStem(Name(n.path))))

ckpt_to_dir(s) ==
    LET n == Normalized(s)
    IN  IF n.exc # NoExc THEN n
        ELSE IF Suffix(n.path) # Marker THEN Raised("AssertionError")
        ELSE with_name(n.path, Stem(n.path))

----------------------------------------------------------------------------
(* Payloads: nested dicts and lists over tensor and non-tensor leaves.     *)

Cpu == [type |-> "cpu"]
Cuda(i) == [type |-> "cuda", index |-> i]
CudaDevices == {Cuda(i) : i \in 0..(NumDevices - 1)}
Devices == {Cpu} \cup CudaDevices

Tensor(v, d) == [t |-> "tensor", val |-> v, dev |-> d]
Obj(v) == [t |-> "obj", val |-> v]
Dict(f) == [t |-> "dict", items |-> f]
List(q) == [t |-> "list", items |-> q]
IsContainer(x) == x.t \in {"dict", "list"}

\* faulty variant: no tensor is moved
_fix_device_never(t, cur_dev) == t

\* faulty variant: every tensor not on the current device is moved, host tensors too
_fix_device_any(t, cur_dev) ==
    IF t.t = "tensor" /\ t.dev # cur_dev THEN [t EXCEPT !.dev = cur_dev] ELSE t

\* _fix_device (lines 165-168); cur_dev is the enclosing function's local
_fix_device(t, cur_dev) ==
    IF t.t = "tensor" /\ t.dev.type = "cuda" /\ t.dev # cur_dev
        THEN [t EXCEPT !.dev = cur_dev]
        ELSE t

\* dict_list_map_outplace(_fix_device, x): a new dict or list per container,
\* built from the mapped items; anything else is a leaf
RECURSIVE dict_list_map_outplace(_, _)
dict_list_map_outplace(x, cur_dev) ==
    IF IsContainer(x)
        THEN [x EXCEPT !.items =
                 [k \in DOMAIN x.items |-> dict_list_map_outplace(x.items[k], cur_dev)]]
        ELSE _fix_device(x, cur_dev)

\* _fix_tensors_device(ckpt) in a process whose accelerator runtime is rt
_fix_tensors_device(x, rt) ==
    IF ~rt.is_initialized THEN Raised("AssertionError")
    ELSE [exc |-> NoExc,
          value |-> dict_list_map_outplace(x, Cuda(rt.current_device))]

Runtimes == [is_initialized : BOOLEAN, current_device : 0..(NumDevices - 1)]

----------------------------------------------------------------------------
(* The filesystem and the sharded serialization backend, as the store      *)
(* sees them through get_filesystem(...) and megatron.core's               *)
(* dist_checkpointing.  A directory is "ckpt" when the backend's probe     *)
(* check_is_distributed_checkpoint accepts it and "dir" when it does not   *)
(* (empty, unrelated, or a write that did not complete).                   *)

RawA == <<"a">>
RawACkpt == <<"a", ".", "ckpt">>
RawACkptCkpt == <<"a", ".", "ckpt", ".", "ckpt">>
RawAA == <<"a", "/", "a">>
RawAACkpt == <<"a", "/", "a", ".", "ckpt">>

\* the entries of the working directory that the model follows
Nodes == {Path(RawA), Path(RawACkpt), Path(RawAA)}
\* the path arguments of save_checkpoint and is_distributed_ckpt
DirPaths == {RawA, RawACkpt, RawACkptCkpt, RawAA, RawAACkpt}
\* the path arguments of load_checkpoint and remove_checkpoint
RawPaths == {RawA, RawACkpt, RawAA}

Kinds == {"absent", "file", "dir", "ckpt"}
IsDirKind(k) == k \in {"dir", "ckpt"}
NoContent == [t |-> "none"]

\* m is n or lies beneath n
Beneath(n, m) ==
    /\ m.anchor = n.anchor
    /\ Len(m.parts) >= Len(n.parts)
    /\ SubSeq(m.parts, 1, Len(n.parts)) = n.parts
Above(n) == {m \in Nodes : m # n /\ Beneath(m, n)}

\* the entry a path string names
FsNode(s) == Path(s)

Called(fn, on) == [fn |-> fn, on |-> on]

\* fs.exists(path), fs.isdir(path)
exists(f, n) == f[n] # "absent"
isdir(f, n) == IsDirKind(f[n])
\* dist_checkpointing.check_is_distributed_checkpoint(checkpoint_dir)
check_is_distributed_checkpoint(f, n) == f[n] = "ckpt"

\* faulty variant: a directory that is already there is an error (no exist_ok)
makedirs_exc_strict(f, n) ==
    IF f[n] # "absent" THEN "FileExistsError"
    ELSE IF \E m \in Above(n) : f[m] = "file" THEN "NotADirectoryError"
    ELSE NoExc

\* fs.makedirs(checkpoint_dir, exist_ok=True): what it raises ...
makedirs_exc(f, n) ==
    IF f[n] = "file" THEN "FileExistsError"
    ELSE IF \E m \in Above(n) : f[m] = "file" THEN "NotADirectoryError"
    ELSE NoExc
\* ... and the filesystem it leaves when it raises nothing
makedirs(f, n) ==
    [m \in Nodes |-> IF Beneath(m, n) /\ f[m] = "absent" THEN "dir" ELSE f[m]]

\* fs.rm(path, recursive=True): what it raises; the path must be there
rm_exc(f, n) == IF f[n] = "absent" THEN "FileNotFoundError" ELSE NoExc

\* faulty variant: only the entry itself is deleted
rm_flat(f, n) == [m \in Nodes |-> IF m = n THEN "absent" ELSE f[m]]

\* fs.rm(path, recursive=True)
rm(f, n) == [m \in Nodes |-> IF Beneath(n, m) THEN "absent" ELSE f[m]]

\* the payload with every tensor leaf on device d
RECURSIVE Place(_, _)
Place(x, d) ==
    IF IsContainer(x)
        THEN [x EXCEPT !.items = [k \in DOMAIN x.items |-> Place(x.items[k], d)]]
        ELSE IF x.t = "tensor" THEN [x EXCEPT !.dev = d] ELSE x

\* two payloads of the same structure and values, devices aside
SameStructure(x, y) == Place(x, Cpu) = Place(y, Cpu)

NoError == [kind |-> "none", exc |-> NoExc]
Error(kind, exc) == [kind |-> kind, exc |-> exc]
None == [t |-> "None"]

\* what a call did: the filesystem and contents it leaves, the collaborator
\* calls it made in order, what it raised and what it returned
Outcome(f, c, calls, err, ret) ==
    [fs |-> f, content |-> c, calls |-> calls, err |-> err, ret |-> ret]

----------------------------------------------------------------------------
(* MegatronCheckpointIO *)

Formats == {"torch_dist", "zarr"}
StorageOptions == {None, [t |-> "options"]}
MapLocations == {None, [t |-> "map_location"]}
\* what dist_checkpointing.load does: it raises, or returns the stored payload
\* with its tensors on some device
BackendReads == {[raises |-> TRUE]} \cup {[raises |-> FALSE, device |-> d] : d \in Devices}

\* faulty variant: the format given at construction is ignored
_determine_dist_ckpt_save_strategy_default(format) == <<"torch_dist", 1>>

\* _determine_dist_ckpt_save_strategy
_determine_dist_ckpt_save_strategy(format) == <<format, 1>>

PathError(exc) ==
    Error(IF exc = "AssertionError" THEN "InvalidPathKind" ELSE "Pathlib", exc)

\* the isdir-and-probe condition of lines 89 and 209, with the calls it makes:
\* the probe runs only when isdir answered true
ProbeCalls(dir) ==
    <<Called("fs.isdir", dir)>>
        \o (IF isdir(fs, dir)
                THEN <<Called("check_is_distributed_checkpoint", dir)>>
                ELSE <<>>)
IsComplete(dir) == isdir(fs, dir) /\ check_is_distributed_checkpoint(fs, dir)

SaveCall(dir, checkpoint) ==
    [fn |-> "dist_checkpointing.save", on |-> FsNode(Str(dir)),
     checkpoint |-> checkpoint, sharded_strategy |-> save_sharded_strategy]

\* faulty variant: the backend writes without the directory being made first
WriteCheckpoint_unmade(dir, checkpoint, calls, backend_ok) ==
    LET written == Append(calls, SaveCall(dir, checkpoint))
        node == FsNode(Str(dir))
    IN  IF makedirs_exc(fs, dir) # NoExc \/ ~isdir(fs, dir) \/ ~backend_ok
            THEN Outcome(fs, content, written,
                         Error("Backend", "CheckpointingException"), None)
            ELSE Outcome([fs EXCEPT ![node] = "ckpt"],
                         [content EXCEPT ![node] = checkpoint],
                         written, NoError, None)

\* faulty variant: a backend write that raised is tried a second time
WriteCheckpoint_retries(dir, checkpoint, calls, backend_ok) ==
    LET made == Append(calls, Called("fs.makedirs", dir))
        written == Append(made, SaveCall(dir, checkpoint))
        node == FsNode(Str(dir))
    IN  IF makedirs_exc(fs, dir) # NoExc
            THEN Outcome(fs, content, made,
                         Error("Filesystem", makedirs_exc(fs, dir)), None)
        ELSE IF backend_ok
            THEN Outcome([makedirs(fs, dir) EXCEPT ![node] = "ckpt"],
                         [content EXCEPT ![node] = checkpoint],
                         written, NoError, None)
        ELSE Outcome(makedirs(fs, dir), content,
                     Append(written, SaveCall(dir, checkpoint)),
                     Error("Backend", "CheckpointingException"), None)

\* lines 92-98: the directory is made, then the backend writes
WriteCheckpoint(dir, checkpoint, calls, backend_ok) ==
    LET made == Append(calls, Called("fs.makedirs", dir))
        written == Append(made, SaveCall(dir, checkpoint))
        node == FsNode(Str(dir))
    IN  IF makedirs_exc(fs, dir) # NoExc
            THEN Outcome(fs, content, made,
                         Error("Filesystem", makedirs_exc(fs, dir)), None)
        ELSE IF backend_ok
            THEN Outcome([makedirs(fs, dir) EXCEPT ![node] = "ckpt"],
                         [content EXCEPT ![node] = checkpoint],
                         written, NoError, None)
        ELSE Outcome(makedirs(fs, dir), content, written,
                     Error("Backend", "CheckpointingException"), None)

\* faulty variant: the completeness check is left out and every save writes
save_checkpoint_always_writes(checkpoint, path, storage_options, backend_ok) ==
    IF storage_options # None
        THEN Outcome(fs, content, <<>>, Error("UnsupportedOption", "TypeError"), None)
    ELSE LET d == ckpt_to_dir(path)
         IN  IF d.exc # NoExc
                 THEN Outcome(fs, content, <<>>, PathError(d.exc), None)
             ELSE WriteCheckpoint(d.path, checkpoint, ProbeCalls(d.path), backend_ok)

\* faulty variant: storage_options is rejected only after the directory is made
save_checkpoint_rejects_late(checkpoint, path, storage_options, backend_ok) ==
    LET d == ckpt_to_dir(path)
    IN  IF d.exc # NoExc
            THEN Outcome(fs, content, <<>>, PathError(d.exc), None)
        ELSE IF IsComplete(d.path)
            THEN Outcome(fs, content, ProbeCalls(d.path),
                         IF storage_options # None
                             THEN Error("UnsupportedOption", "TypeError") ELSE NoError,
                         None)
        ELSE IF storage_options # None /\ makedirs_exc(fs, d.path) = NoExc
            THEN Outcome(makedirs(fs, d.path), content,
                         Append(ProbeCalls(d.path), Called("fs.makedirs", d.path)),
                         Error("UnsupportedOption", "TypeError"), None)
        ELSE WriteCheckpoint(d.path, checkpoint, ProbeCalls(d.path), backend_ok)

\* save_checkpoint(checkpoint, path, storage_options); backend_ok: whether
\* dist_checkpointing.save, if it is reached, returns rather than raises
save_checkpoint(checkpoint, path, storage_options, backend_ok) ==
    IF storage_options # None
        THEN Outcome(fs, content, <<>>, Error("UnsupportedOption", "TypeError"), None)
    ELSE LET d == ckpt_to_dir(path)
         IN  IF d.exc # NoExc
                 THEN Outcome(fs, content, <<>>, PathError(d.exc), None)
             ELSE IF IsComplete(d.path)
                 THEN Outcome(fs, content, ProbeCalls(d.path), NoError, None)
             ELSE WriteCheckpoint(d.path, checkpoint, ProbeCalls(d.path), backend_ok)

\* lines 130-133: the backend reads, then _fix_tensors_device
ReadCheckpoint(path, calls, backend, rt) ==
    LET node == FsNode(path)
        read == Append(calls, Called("dist_checkpointing.load", node))
        loaded == Place(content[node], backend.device)
        fix == _fix_tensors_device(loaded, rt)
    IN  IF backend.raises \/ ~check_is_distributed_checkpoint(fs, node)
            THEN Outcome(fs, content, read,
                         Error("Backend", "CheckpointingException"), None)
        ELSE IF fix.exc # NoExc
            THEN Outcome(fs, content, Append(read, Called("_fix_tensors_device", node)),
                         Error("RuntimeNotInitialized", fix.exc), None)
        ELSE Outcome(fs, content, Append(read, Called("_fix_tensors_device", node)),
                     NoError, fix.value)

\* faulty variant: the existence check is left out
load_checkpoint_no_exists(path, map_location, backend, rt) ==
    IF map_location # None
        THEN Outcome(fs, content, <<>>, Error("UnsupportedOption", "ValueError"), None)
    ELSE IF ~isdir(fs, FsNode(path))
        THEN Outcome(fs, content, <<Called("fs.isdir", FsNode(path))>>,
                     Error("InvalidLayout", "ValueError"), None)
    ELSE ReadCheckpoint(path, <<Called("fs.isdir", FsNode(path))>>, backend, rt)

\* faulty variant: the directory check is left out
load_checkpoint_no_isdir(path, map_location, backend, rt) ==
    IF map_location # None
        THEN Outcome(fs, content, <<>>, Error("UnsupportedOption", "ValueError"), None)
    ELSE IF ~exists(fs, FsNode(path))
        THEN Outcome(fs, content, <<Called("fs.exists", FsNode(path))>>,
                     Error("NotFound", "FileNotFoundError"), None)
    ELSE ReadCheckpoint(path, <<Called("fs.exists", FsNode(path))>>, backend, rt)

\* faulty variant: map_location is rejected after the checks of the path
load_checkpoint_rejects_late(path, map_location, backend, rt) ==
    IF ~exists(fs, FsNode(path))
        THEN Outcome(fs, content, <<Called("fs.exists", FsNode(path))>>,
                     Error("NotFound", "FileNotFoundError"), None)
    ELSE IF ~isdir(fs, FsNode(path))
        THEN Outcome(fs, content,
                     <<Called("fs.exists", FsNode(path)), Called("fs.isdir", FsNode(path))>>,
                     Error("InvalidLayout", "ValueError"), None)
    ELSE IF map_location # None
        THEN Outcome(fs, content,
                     <<Called("fs.exists", FsNode(path)), Called("fs.isdir", FsNode(path))>>,
                     Error("UnsupportedOption", "ValueError"), None)
    ELSE ReadCheckpoint(path,
                        <<Called("fs.exists", FsNode(path)), Called("fs.isdir", FsNode(path))>>,
                        backend, rt)

\* faulty variant: the path is resolved through ckpt_to_dir, as save does
load_checkpoint_normalizes(path, map_location, backend, rt) ==
    LET dir == Str(ckpt_to_dir(path).path)
    IN  IF map_location # None
            THEN Outcome(fs, content, <<>>, Error("UnsupportedOption", "ValueError"), None)
        ELSE IF ~exists(fs, FsNode(dir))
            THEN Outcome(fs, content, <<Called("fs.exists", FsNode(dir))>>,
                         Error("NotFound", "FileNotFoundError"), None)
        ELSE IF ~isdir(fs, FsNode(dir))
            THEN Outcome(fs, content,
                         <<Called("fs.exists", FsNode(dir)), Called("fs.isdir", FsNode(dir))>>,
                         Error("InvalidLayout", "ValueError"), None)
        ELSE ReadCheckpoint(dir,
                            <<Called("fs.exists", FsNode(dir)), Called("fs.isdir", FsNode(dir))>>,
                            backend, rt)

\* load_checkpoint(path, sharded_state_dict, map_location) in a process whose
\* accelerator runtime is rt; backend: what dist_checkpointing.load does
load_checkpoint(path, map_location, backend, rt) ==
    IF map_location # None
        THEN Outcome(fs, content, <<>>, Error("UnsupportedOption", "ValueError"), None)
    ELSE IF ~exists(fs, FsNode(path))
        THEN Outcome(fs, content, <<Called("fs.exists", FsNode(path))>>,
                     Error("NotFound", "FileNotFoundError"), None)
    ELSE IF ~isdir(fs, FsNode(path))
        THEN Outcome(fs, content,
                     <<Called("fs.exists", FsNode(path)), Called("fs.isdir", FsNode(path))>>,
                     Error("InvalidLayout", "ValueError"), None)
    ELSE ReadCheckpoint(path,
                        <<Called("fs.exists", FsNode(path)), Called("fs.isdir", FsNode(path))>>,
                        backend, rt)

\* faulty variant: the path is resolved through ckpt_to_dir, as save does
remove_checkpoint_normalizes(path) ==
    LET node == ckpt_to_dir(path).path
    IN  IF exists(fs, node)
            THEN Outcome(rm(fs, node),
                         [m \in Nodes |-> IF rm(fs, node)[m] = "ckpt" THEN content[m]
                                          ELSE NoContent],
                         <<Called("fs.exists", node), Called("fs.rm", node)>>,
                         NoError, None)
            ELSE Outcome(fs, content, <<Called("fs.exists", node)>>, NoError, None)

\* remove_checkpoint(path)
remove_checkpoint(path) ==
    LET node == FsNode(path)
    IN  IF exists(fs, node)
            THEN Outcome(rm(fs, node),
                         [m \in Nodes |-> IF rm(fs, node)[m] = "ckpt" THEN content[m]
                                          ELSE NoContent],
                         <<Called("fs.exists", node), Called("fs.rm", node)>>,
                         NoError, None)
            ELSE Outcome(fs, content, <<Called("fs.exists", node)>>, NoError, None)

\* faulty variant: the backend's probe is left out
is_distributed_ckpt_isdir_only(path) ==
    LET d == ckpt_to_dir(path)
    IN  IF d.exc # NoExc
            THEN Outcome(fs, content, <<>>, PathError(d.exc), None)
            ELSE Outcome(fs, content, <<Called("fs.isdir", d.path)>>, NoError,
                         isdir(fs, d.path))

\* is_distributed_ckpt(path)
is_distributed_ckpt(path) ==
    LET d == ckpt_to_dir(path)
    IN  IF d.exc # NoExc
            THEN Outcome(fs, content, <<>>, PathError(d.exc), None)
            ELSE Outcome(fs, content, ProbeCalls(d.path), NoError, IsComplete(d.path))

----------------------------------------------------------------------------
(* TrainerContext *)

\* a Python object is its attributes; Missing is an attribute that is not there
Object(attrs) == [t |-> "object", attrs |-> attrs]
Missing == [t |-> "missing"]
NoAttrs == [k \in {} |-> None]

\* hasattr(x, name): None has none of the attributes asked for
hasattr(x, name) == x.t = "object" /\ name \in DOMAIN x.attrs
getattr(x, name) == x.attrs[name]

\* what from_trainer does, in order
Step(what, name) == [what |-> what, name |-> name]

TrainerMessage == "Trainer must be an instance of IOProtocol. Please use the Trainer from nemo."
ModuleMessage == "LightningModule must extend IOMixin."
MissingCapability(message, steps) ==
    [exc |-> "ValueError", kind |-> "MissingCapability", message |-> message,
     steps |-> steps]

\* TrainerContext.construct_extra(trainer)
construct_extra(trainer_) ==
    IF ~hasattr(trainer_, "datamodule")
        THEN [extra |-> NoAttrs, steps |-> <<Step("hasattr", "trainer.datamodule")>>]
    ELSE IF ~hasattr(getattr(trainer_, "datamodule"), "__io__")
        THEN [extra |-> NoAttrs,
              steps |-> <<Step("hasattr", "trainer.datamodule"),
                          Step("hasattr", "trainer.datamodule.__io__")>>]
    ELSE [extra |-> [k \in {"datamodule"} |->
                        getattr(getattr(trainer_, "datamodule"), "__io__")],
          steps |-> <<Step("hasattr", "trainer.datamodule"),
                      Step("hasattr", "trainer.datamodule.__io__"),
                      Step("read", "trainer.datamodule.__io__")>>]

\* faulty variant: the model is checked before the trainer
from_trainer_model_first(trainer_) ==
    LET checked == <<Step("hasattr", "trainer.lightning_module.__io__"),
                     Step("hasattr", "trainer.__io__")>>
        built == construct_extra(trainer_)
    IN  IF ~hasattr(getattr(trainer_, "lightning_module"), "__io__")
            THEN MissingCapability(ModuleMessage, SubSeq(checked, 1, 1))
        ELSE IF ~hasattr(trainer_, "__io__")
            THEN MissingCapability(TrainerMessage, checked)
        ELSE [exc |-> NoExc,
              value |-> [trainer |-> trainer_,
                         model |-> getattr(trainer_, "lightning_module"),
                         extra |-> built.extra],
              steps |-> checked \o built.steps \o <<Step("build", "TrainerContext")>>]

\* TrainerContext.from_trainer(trainer)
from_trainer(trainer_) ==
    LET checked == <<Step("hasattr", "trainer.__io__"),
                     Step("hasattr", "trainer.lightning_module.__io__")>>
        built == construct_extra(trainer_)
    IN  IF ~hasattr(trainer_, "__io__")
            THEN MissingCapability(TrainerMessage, SubSeq(checked, 1, 1))
        ELSE IF ~hasattr(getattr(trainer_, "lightning_module"), "__io__")
            THEN MissingCapability(ModuleMessage, checked)
        ELSE [exc |-> NoExc,
              value |-> [trainer |-> trainer_,
                         model |-> getattr(trainer_, "lightning_module"),
                         extra |-> built.extra],
              steps |-> checked \o built.steps \o <<Step("build", "TrainerContext")>>]

----------------------------------------------------------------------------
(* Idle values of the variables a specification does not use. *)

Idle == "idle"
NotCalled == [exc |-> "not called"]
PathIdle == filepath = <<>> /\ checkpoint_dir = NotCalled
NotFixed == [call |-> NotCalled, given |-> Idle]
FixIdle == ckpt = Idle /\ cuda = Idle /\ fixed = NotFixed
CtxIdle == trainer = Idle /\ context = NotCalled
RaceIdle == race = Idle /\ proc = Idle
StoreIdle ==
    /\ fs = Idle /\ content = Idle /\ save_ckpt_format = Idle
    /\ save_sharded_strategy = Idle /\ pre = Idle /\ repeated = FALSE
    /\ last = Idle /\ scen = Idle

----------------------------------------------------------------------------
(* Spec: one store, constructed with some format, in one process; its      *)
(* operations and is_distributed_ckpt are called in any order on a         *)
(* filesystem that starts in any state.                                    *)

SavePayloads ==
    {Dict([k \in {"w"} |-> Tensor("x", Cuda(0))]),
     Dict([k \in {"w", "b"} |-> IF k = "w" THEN Tensor("y", Cpu) ELSE Obj("n")])}

\* an entry exists only inside a directory
Consistent(f) == \A n \in Nodes : exists(f, n) => \A m \in Above(n) : isdir(f, m)

NoCall ==
    [op |-> "none", path |-> <<>>, option |-> None, checkpoint |-> None, rt |-> None,
     calls |-> <<>>, err |-> NoError, ret |-> None]
NoScenario == [step |-> 0, checkpoint |-> None]

Calls(call, fn) == {i \in DOMAIN call.calls : call.calls[i].fn = fn}
Made(call, fn) == Calls(call, fn) # {}

\* The end-to-end scenario, followed along the calls: save to "a.ckpt" while
\* "a" is absent, the same save again, load "a", remove "a", load "a"; good:
\* the backend does not raise and the accelerator runtime is initialized.
ScenAfter(op, path, option, checkpoint, good) ==
    IF /\ op = "save_checkpoint" /\ path = RawACkpt /\ option = None /\ good
       /\ fs[Path(RawA)] = "absent"
        THEN [step |-> 1, checkpoint |-> checkpoint]
    ELSE IF /\ scen.step = 1 /\ op = "save_checkpoint" /\ path = RawACkpt
            /\ option = None /\ good /\ checkpoint = scen.checkpoint
        THEN [scen EXCEPT !.step = 2]
    ELSE IF scen.step = 2 /\ op = "load_checkpoint" /\ path = RawA /\ option = None /\ good
        THEN [scen EXCEPT !.step = 3]
    ELSE IF scen.step = 3 /\ op = "remove_checkpoint" /\ path = RawA
        THEN [scen EXCEPT !.step = 4]
    ELSE IF scen.step = 4 /\ op = "load_checkpoint" /\ path = RawA /\ option = None /\ good
        THEN [scen EXCEPT !.step = 5]
    ELSE NoScenario

Init ==
    /\ fs \in {f \in [Nodes -> Kinds] : Consistent(f)}
    /\ content \in [Nodes -> SavePayloads \cup {NoContent}]
    /\ \A n \in Nodes : (content[n] # NoContent) <=> (fs[n] = "ckpt")
    /\ save_ckpt_format \in Formats
    /\ save_sharded_strategy = _determine_dist_ckpt_save_strategy(save_ckpt_format)
    /\ pre = [fs |-> fs, content |-> content]
    /\ repeated = FALSE
    /\ last = NoCall
    /\ scen = NoScenario
    /\ PathIdle /\ FixIdle /\ CtxIdle /\ RaceIdle

\* the bookkeeping every call shares
Record(op, path, option, checkpoint, rt, good, out) ==
    /\ fs' = out.fs
    /\ content' = out.content
    /\ pre' = [fs |-> fs, content |-> content]
    /\ repeated' = (last.op = op /\ last.path = path /\ last.option = None
                    /\ last.err = NoError /\ option = None)
    /\ last' = [op |-> op, path |-> path, option |-> option, checkpoint |-> checkpoint,
                rt |-> rt, calls |-> out.calls, err |-> out.err, ret |-> out.ret]
    /\ scen' = ScenAfter(op, path, option, checkpoint, good)
    /\ UNCHANGED <<save_ckpt_format, save_sharded_strategy, pathVars, fixVars, ctxVars,
                    raceVars>>

\* The backend and the accelerator runtime are inputs of a call only when the
\* call reaches them; otherwise one value stands for all.
GoodRead == [raises |-> FALSE, device |-> Cpu]
GoodRuntime == [is_initialized |-> TRUE, current_device |-> 0]
WriteOutcomes(checkpoint, path, storage_options) ==
    IF Made(save_checkpoint(checkpoint, path, storage_options, TRUE), "dist_checkpointing.save")
        THEN BOOLEAN ELSE {TRUE}
ReadOutcomes(path, map_location) ==
    IF Made(load_checkpoint(path, map_location, GoodRead, GoodRuntime), "dist_checkpointing.load")
        THEN BackendReads ELSE {GoodRead}
RuntimesSeen(path, map_location, backend) ==
    IF Made(load_checkpoint(path, map_location, backend, GoodRuntime), "_fix_tensors_device")
        THEN Runtimes ELSE {GoodRuntime}

Save ==
    \E checkpoint \in SavePayloads, path \in DirPaths, storage_options \in StorageOptions :
        \E backend_ok \in WriteOutcomes(checkpoint, path, storage_options) :
            LET out == save_checkpoint(checkpoint, path, storage_options, backend_ok)
            IN  Record("save_checkpoint", path, storage_options, checkpoint, None,
                       backend_ok, out)

Load ==
    \E path \in RawPaths, map_location \in MapLocations :
        \E backend \in ReadOutcomes(path, map_location) :
            \E rt \in RuntimesSeen(path, map_location, backend) :
                LET out == load_checkpoint(path, map_location, backend, rt)
                IN  Record("load_checkpoint", path, map_location, None,
                           IF Made(out, "_fix_tensors_device") THEN rt ELSE None,
                           ~backend.raises /\ rt.is_initialized, out)

Remove ==
    \E path \in RawPaths :
        \E out \in {remove_checkpoint(path)} :
            Record("remove_checkpoint", path, None, None, None, TRUE, out)

IsDistributedCkpt ==
    \E path \in DirPaths :
        \E out \in {is_distributed_ckpt(path)} :
            Record("is_distributed_ckpt", path, None, None, None, TRUE, out)

Next == Save \/ Load \/ Remove \/ IsDistributedCkpt
Spec == Init /\ [][Next]_vars

----------------------------------------------------------------------------
(* PathSpec: ckpt_to_dir called on every path string of at most MaxLen     *)
(* tokens.                                                                 *)

RECURSIVE StringsUpTo(_)
StringsUpTo(n) ==
    IF n = 0 THEN {<<>>}
    ELSE LET shorter == StringsUpTo(n - 1)
         IN  shorter \cup {Append(s, t) : s \in {x \in shorter : Len(x) = n - 1}, t \in Token}

PathInit ==
    /\ filepath \in StringsUpTo(MaxLen)
    /\ checkpoint_dir = NotCalled
    /\ StoreIdle /\ FixIdle /\ CtxIdle /\ RaceIdle

CkptToDir ==
    /\ checkpoint_dir = NotCalled
    /\ checkpoint_dir' = ckpt_to_dir(filepath)
    /\ UNCHANGED <<filepath, storeVars, fixVars, ctxVars, raceVars>>

PathNext == CkptToDir
PathSpec == PathInit /\ [][PathNext]_vars

----------------------------------------------------------------------------
(* FixSpec: _fix_tensors_device called on every payload of two levels of   *)
(* containers, in every state of the accelerator runtime.                  *)

Keys == {"w", "b"}
Leaves == {Tensor("x", d) : d \in Devices} \cup {Obj("n")}
DictsOver(S) == {Dict(f) : f \in UNION {[D -> S] : D \in SUBSET Keys}}
ListsOver(S) ==
    {List(<<>>)} \cup {List(<<x>>) : x \in S} \cup {List(<<x, y>>) : x \in S, y \in S}
Flat == DictsOver(Leaves) \cup ListsOver(Leaves)
Nested == DictsOver(Leaves \cup Flat) \cup ListsOver(Leaves \cup Flat)

FixInit ==
    /\ ckpt \in Nested
    /\ cuda \in Runtimes
    /\ fixed = NotFixed
    /\ StoreIdle /\ PathIdle /\ CtxIdle /\ RaceIdle

FixTensorsDevice ==
    /\ fixed = NotFixed
    /\ fixed' = [call |-> _fix_tensors_device(ckpt, cuda), given |-> ckpt]
    /\ UNCHANGED <<ckpt, cuda, storeVars, pathVars, ctxVars, raceVars>>

FixNext == FixTensorsDevice
FixSpec == FixInit /\ [][FixNext]_vars

----------------------------------------------------------------------------
(* CtxSpec: TrainerContext.from_trainer called on every trainer: with or    *)
(* without __io__, its lightning_module None or a module with or without   *)
(* __io__, its datamodule attribute absent, None, or a datamodule with or  *)
(* without __io__.                                                         *)

IoValues == {"io1", "io2"}
Capable == {Object([k \in {"__io__"} |-> v]) : v \in IoValues}
Attached == {None, Object(NoAttrs)} \cup Capable

TrainerOf(io, module, datamodule) ==
    Object([k \in {"lightning_module"}
                     \cup (IF io = Missing THEN {} ELSE {"__io__"})
                     \cup (IF datamodule = Missing THEN {} ELSE {"datamodule"}) |->
               IF k = "__io__" THEN io
               ELSE IF k = "lightning_module" THEN module
               ELSE datamodule])

Trainers ==
    {TrainerOf(io, module, datamodule) :
        io \in {Missing} \cup {[t |-> "io", v |-> v] : v \in IoValues},
        module \in Attached,
        datamodule \in {Missing} \cup Attached}

CtxInit ==
    /\ trainer \in Trainers
    /\ context = NotCalled
    /\ StoreIdle /\ PathIdle /\ FixIdle /\ RaceIdle

FromTrainer ==
    /\ context = NotCalled
    /\ context' = from_trainer(trainer)
    /\ UNCHANGED <<trainer, storeVars, pathVars, fixVars, raceVars>>

CtxNext == FromTrainer
CtxSpec == CtxInit /\ [][CtxNext]_vars

----------------------------------------------------------------------------
(* RaceSpec: NumProcs processes call the same operation of the store,      *)
(* remove_checkpoint or save_checkpoint without storage options, on the     *)
(* same path at the same time.  A step is one call of a process to the     *)
(* filesystem or the backend; the backend's write is a step that starts it *)
(* and a step that ends it, the directory being complete from its end.     *)

Procs == 1..NumProcs

\* a process about to make the call named pc
Started(pc) == [pc |-> pc, saw |-> "nothing", calls |-> <<>>, err |-> NoError]

\* the entry the processes act on: remove takes the path as given, save
\* resolves it through ckpt_to_dir
RaceNode ==
    IF race.op = "remove_checkpoint" THEN FsNode(race.path)
    ELSE ckpt_to_dir(race.path).path

RaceInit ==
    /\ fs \in {f \in [Nodes -> Kinds] : Consistent(f)}
    /\ race \in {[op |-> "remove_checkpoint", path |-> path] : path \in RawPaths}
                \cup {[op |-> "save_checkpoint", path |-> path] : path \in DirPaths}
    /\ proc = [p \in Procs |->
                  Started(IF race.op = "remove_checkpoint" THEN "fs.exists"
                          ELSE "fs.isdir")]
    /\ content = Idle /\ save_ckpt_format = Idle /\ save_sharded_strategy = Idle
    /\ pre = Idle /\ repeated = FALSE /\ last = Idle /\ scen = Idle
    /\ PathIdle /\ FixIdle /\ CtxIdle

\* process p has made the call it was at, saw there what saw says, and goes on
\* to pc, or is done with err
Goes(p, pc, saw, err) ==
    /\ proc' = [proc EXCEPT ![p] =
                   [pc |-> pc, saw |-> saw,
                    calls |-> Append(@.calls, Called(proc[p].pc, RaceNode)),
                    err |-> err]]
    /\ UNCHANGED <<content, save_ckpt_format, save_sharded_strategy, pre, repeated,
                   last, scen, race, pathVars, fixVars, ctxVars>>

\* line 144: if fs.exists(path)
RemoveExists(p) ==
    /\ proc[p].pc = "fs.exists"
    /\ Goes(p, IF exists(fs, RaceNode) THEN "fs.rm" ELSE "done", fs[RaceNode], NoError)
    /\ fs' = fs

\* line 145: fs.rm(path, recursive=True)
RemoveRm(p) ==
    /\ proc[p].pc = "fs.rm"
    /\ IF rm_exc(fs, RaceNode) # NoExc
           THEN /\ Goes(p, "done", proc[p].saw, Error("Filesystem", rm_exc(fs, RaceNode)))
                /\ fs' = fs
           ELSE /\ Goes(p, "done", proc[p].saw, NoError)
                /\ fs' = rm(fs, RaceNode)

\* line 89, left of the "and": fs.isdir(checkpoint_dir)
SaveIsdir(p) ==
    /\ proc[p].pc = "fs.isdir"
    /\ Goes(p, IF isdir(fs, RaceNode) THEN "check_is_distributed_checkpoint"
               ELSE "fs.makedirs",
            fs[RaceNode], NoError)
    /\ fs' = fs

\* line 89, right of the "and": check_is_distributed_checkpoint(checkpoint_dir)
SaveProbe(p) ==
    /\ proc[p].pc = "check_is_distributed_checkpoint"
    /\ Goes(p, IF check_is_distributed_checkpoint(fs, RaceNode) THEN "done"
               ELSE "fs.makedirs",
            fs[RaceNode], NoError)
    /\ fs' = fs

\* line 92: fs.makedirs(checkpoint_dir, exist_ok=True)
SaveMakedirs(p) ==
    /\ proc[p].pc = "fs.makedirs"
    /\ IF makedirs_exc(fs, RaceNode) # NoExc
           THEN /\ Goes(p, "done", proc[p].saw,
                        Error("Filesystem", makedirs_exc(fs, RaceNode)))
                /\ fs' = fs
           ELSE /\ Goes(p, "dist_checkpointing.save", proc[p].saw, NoError)
                /\ fs' = makedirs(fs, RaceNode)

\* lines 94-98: dist_checkpointing.save is called ...
SaveWriteStarts(p) ==
    /\ proc[p].pc = "dist_checkpointing.save"
    /\ Goes(p, "writing", proc[p].saw, NoError)
    /\ fs' = fs

\* ... and returns, the checkpoint being complete, or raises
SaveWriteEnds(p) ==
    /\ proc[p].pc = "writing"
    /\ \E backend_ok \in BOOLEAN :
           /\ proc' = [proc EXCEPT ![p].pc = "done",
                                   ![p].err = IF backend_ok THEN NoError
                                              ELSE Error("Backend", "CheckpointingException")]
           /\ fs' = IF backend_ok THEN [fs EXCEPT ![RaceNode] = "ckpt"] ELSE fs
    /\ UNCHANGED <<content, save_ckpt_format, save_sharded_strategy, pre, repeated,
                   last, scen, race, pathVars, fixVars, ctxVars>>

RaceNext ==
    \E p \in Procs :
        \/ RemoveExists(p)
        \/ RemoveRm(p)
        \/ SaveIsdir(p)
        \/ SaveProbe(p)
        \/ SaveMakedirs(p)
        \/ SaveWriteStarts(p)
        \/ SaveWriteEnds(p)
RaceSpec == RaceInit /\ [][RaceNext]_vars

----------------------------------------------------------------------------
(* Claims about TrainerContext.from_trainer, under CtxSpec. *)

HasCapability(x) == hasattr(x, "__io__")
Reads(call) == {i \in DOMAIN call.steps : call.steps[i].what \in {"read", "build"}}

\* C11: from_trainer raises ValueError (MissingCapability) if the trainer has no
\* __io__, and otherwise if its lightning_module has none: the trainer is
\* checked first, and nothing is read or built when a check fails.  Otherwise
\* it returns the context of the trainer and its module, whose extra has the key
\* "datamodule" exactly if the trainer has a datamodule that has __io__, with
\* that __io__ as its value; no datamodule, or one without __io__, is no error.
C11_FromTrainer ==
    context # NotCalled =>
        LET module == getattr(trainer, "lightning_module")
            exported == /\ hasattr(trainer, "datamodule")
                        /\ HasCapability(getattr(trainer, "datamodule"))
        IN  /\ ~HasCapability(trainer) =>
                   /\ context.exc = "ValueError" /\ context.message = TrainerMessage
                   /\ context.steps = <<Step("hasattr", "trainer.__io__")>>
            /\ (HasCapability(trainer) /\ ~HasCapability(module)) =>
                   /\ context.exc = "ValueError" /\ context.message = ModuleMessage
                   /\ Reads(context) = {}
            /\ (HasCapability(trainer) /\ HasCapability(module)) =>
                   /\ context.exc = NoExc
                   /\ context.value.trainer = trainer
                   /\ context.value.model = module
                   /\ DOMAIN context.value.extra =
                          IF exported THEN {"datamodule"} ELSE {}
                   /\ exported => context.value.extra["datamodule"] =
                                      getattr(getattr(trainer, "datamodule"), "__io__")
                   /\ \A i \in Reads(context) : i > 2

\* a context built for a trainer whose datamodule is there but has no __io__
C11_Witness ==
    /\ context # NotCalled
    /\ context.exc = NoExc
    /\ hasattr(trainer, "datamodule")
    /\ getattr(trainer, "datamodule") = Object(NoAttrs)
    /\ context.value.extra = NoAttrs

----------------------------------------------------------------------------
(* Claims about ckpt_to_dir, under PathSpec. *)

\* the path string ends with its final component: no trailing separator or "/."
EndsWithName(s) ==
    LET name == Name(Path(s))
    IN  /\ name # <<>>
        /\ Len(s) >= Len(name)
        /\ SubSeq(s, Len(s) - Len(name) + 1, Len(s)) = name

\* the three equations of C8 for a call that has returned
C8_Equations ==
    /\ checkpoint_dir.exc = NoExc
    /\ checkpoint_dir.path = Path(filepath)
    /\ ckpt_to_dir(filepath \o Marker) = checkpoint_dir
    /\ ckpt_to_dir(Str(checkpoint_dir.path) \o Marker) = checkpoint_dir

\* C8 as stated: for every path P whose final extension is not the marker,
\* ckpt_to_dir(P) = P, ckpt_to_dir(P + marker) = ckpt_to_dir(P) and
\* ckpt_to_dir(ckpt_to_dir(P) + marker) = ckpt_to_dir(P).
C8_AsStated ==
    (checkpoint_dir # NotCalled /\ Suffix(Path(filepath)) # Marker) => C8_Equations

\* C8, amended: the same three equations for every path string P that has a
\* non-empty final component, ends with that component, and whose final
\* extension is not the marker.
C8_ToDirectoryRoundTrip ==
    (/\ checkpoint_dir # NotCalled
     /\ Suffix(Path(filepath)) # Marker
     /\ EndsWithName(filepath)) => C8_Equations

\* ckpt_to_dir has returned for a nested path whose name has another extension
C8_Witness ==
    /\ checkpoint_dir # NotCalled
    /\ filepath = <<"a", "/", "a", ".", "a">>
    /\ checkpoint_dir.exc = NoExc
    /\ Name(checkpoint_dir.path) = <<"a", ".", "a">>

\* C19: for every path string with a non-empty final component the path after
\* the append step of ckpt_to_dir has the marker as its final extension, and in
\* no call at all does the assertion of line 183 fire; the call touches no
\* state of the store or the filesystem.
C19_AssertionNeverFires ==
    checkpoint_dir # NotCalled =>
        /\ checkpoint_dir.exc # "AssertionError"
        /\ Name(Path(filepath)) # <<>> =>
               /\ Normalized(filepath).exc = NoExc
               /\ Suffix(Normalized(filepath).path) = Marker
        /\ StoreIdle

\* a call on "a.", which has no extension: the append step makes it "a..ckpt"
\* and the call returns "a."
C19_Witness ==
    /\ checkpoint_dir # NotCalled
    /\ filepath = <<"a", ".">>
    /\ Suffix(Path(filepath)) = <<>>
    /\ Name(Normalized(filepath).path) = <<"a", ".", ".", "ckpt">>
    /\ checkpoint_dir = Ok(Path(<<"a", ".">>))

----------------------------------------------------------------------------
(* Claims about _fix_tensors_device, under FixSpec. *)

\* y is x with exactly the tensors of another accelerator device moved to cur
RECURSIVE Relocated(_, _, _)
Relocated(x, y, cur) ==
    IF IsContainer(x)
        THEN /\ y.t = x.t
             /\ DOMAIN y.items = DOMAIN x.items
             /\ \A k \in DOMAIN x.items : Relocated(x.items[k], y.items[k], cur)
    ELSE IF x.t = "tensor" /\ x.dev \in CudaDevices /\ x.dev # cur
        THEN y = Tensor(x.val, cur)
    ELSE y = x

\* every tensor leaf of x has its device in the set devs
RECURSIVE TensorsOn(_, _)
TensorsOn(x, devs) ==
    IF IsContainer(x) THEN \A k \in DOMAIN x.items : TensorsOn(x.items[k], devs)
    ELSE x.t = "tensor" => x.dev \in devs

\* C10: with the accelerator runtime initialized, _fix_tensors_device returns
\* the payload with the same structure, every tensor of another accelerator
\* device on the current device and every other leaf unchanged; it changes
\* nothing when all tensors are on the current device, and its argument is
\* left as it was given.
C10_DeviceFixup ==
    (fixed # NotFixed /\ cuda.is_initialized) =>
        /\ fixed.call.exc = NoExc
        /\ Relocated(fixed.given, fixed.call.value, Cuda(cuda.current_device))
        /\ (TensorsOn(fixed.given, {Cuda(cuda.current_device)})
                => fixed.call.value = fixed.given)
        /\ ckpt = fixed.given

\* a fixed payload that held, inside a list inside a dict, a tensor of another
\* accelerator device and a host tensor, beside a non-tensor leaf
C10_Witness ==
    /\ fixed # NotFixed
    /\ cuda = [is_initialized |-> TRUE, current_device |-> 0]
    /\ fixed.given =
           Dict([k \in {"w", "b"} |->
                    IF k = "w" THEN List(<<Tensor("x", Cuda(1)), Tensor("x", Cpu)>>)
                    ELSE Obj("n")])
    /\ fixed.call.value # fixed.given

----------------------------------------------------------------------------
(* Claims about the store, under Spec. *)

IsCall(op) == last.op = op
\* the directory that save_checkpoint and is_distributed_ckpt resolve a path to
DirOf(path) == ckpt_to_dir(path).path
Untouched == fs = pre.fs /\ content = pre.content

\* C1: a save without storage options onto a directory that exists and that the
\* probe reports complete returns without a backend write, without making the
\* directory, and leaves the filesystem as it was; so a save that repeats a
\* save which returned adds no backend write.
C1_SaveSkip ==
    /\ (/\ IsCall("save_checkpoint") /\ last.option = None
        /\ pre.fs[DirOf(last.path)] = "ckpt")
           => /\ last.err = NoError
              /\ ~Made(last, "dist_checkpointing.save")
              /\ ~Made(last, "fs.makedirs")
              /\ Untouched
    /\ (IsCall("save_checkpoint") /\ repeated)
           => ~Made(last, "dist_checkpointing.save") /\ Untouched

\* the second of two equal saves, the first of which wrote the checkpoint
C1_Witness ==
    /\ IsCall("save_checkpoint") /\ repeated /\ scen.step = 2
    /\ pre.fs[DirOf(last.path)] = "ckpt"
    /\ pre.content[DirOf(last.path)] = last.checkpoint

\* C2: a save with storage options fails with UnsupportedOption (TypeError)
\* before any effect: no probe, no directory, no write, the filesystem as before.
C2_StorageOptionsRejected ==
    (IsCall("save_checkpoint") /\ last.option # None)
        => /\ last.err = Error("UnsupportedOption", "TypeError")
           /\ last.calls = <<>>
           /\ Untouched
           /\ (pre.fs[DirOf(last.path)] = "absent" => fs[DirOf(last.path)] = "absent")

\* a rejected save whose directory, and the directory above it, did not exist
C2_Witness ==
    /\ IsCall("save_checkpoint") /\ last.option # None
    /\ last.path = RawAACkpt
    /\ pre.fs[Path(RawA)] = "absent"
    /\ last.err.exc = "TypeError"

\* C3: a load without map_location of a path that does not exist fails with
\* NotFound (FileNotFoundError) and never reaches the backend read.
C3_LoadAbsent ==
    (/\ IsCall("load_checkpoint") /\ last.option = None
     /\ pre.fs[FsNode(last.path)] = "absent")
        => /\ last.err = Error("NotFound", "FileNotFoundError")
           /\ ~Made(last, "dist_checkpointing.load")
           /\ ~Made(last, "_fix_tensors_device")

\* a load of a path that a save had written and a remove then deleted
C3_Witness ==
    /\ IsCall("load_checkpoint") /\ last.option = None
    /\ scen.step = 5
    /\ pre.fs[FsNode(last.path)] = "absent"

\* C4: a load without map_location of a path that is a plain file fails with
\* InvalidLayout (ValueError) and never reaches the backend read.
C4_LoadPlainFile ==
    (/\ IsCall("load_checkpoint") /\ last.option = None
     /\ pre.fs[FsNode(last.path)] = "file")
        => /\ last.err = Error("InvalidLayout", "ValueError")
           /\ ~Made(last, "dist_checkpointing.load")
           /\ ~Made(last, "_fix_tensors_device")

C4_Witness ==
    /\ IsCall("load_checkpoint") /\ last.option = None
    /\ pre.fs[FsNode(last.path)] = "file"
    /\ last.err.kind = "InvalidLayout"

\* C5: a load with map_location fails with UnsupportedOption whatever the path
\* is, before NotFound and InvalidLayout, with no filesystem query, no backend
\* read and no device fix-up.
C5_MapLocationRejected ==
    (IsCall("load_checkpoint") /\ last.option # None)
        => /\ last.err = Error("UnsupportedOption", "ValueError")
           /\ last.calls = <<>>
           /\ Untouched

\* a rejected load of a path that does not exist
C5_Witness ==
    /\ IsCall("load_checkpoint") /\ last.option # None
    /\ pre.fs[FsNode(last.path)] = "absent"
    /\ last.err.kind = "UnsupportedOption"

\* C6: remove never fails; of an absent path it changes nothing; of an existing
\* path it deletes the path and everything beneath it and nothing else; a
\* remove that repeats a remove changes nothing.
C6_Remove ==
    IsCall("remove_checkpoint") =>
        LET node == FsNode(last.path)
        IN  /\ last.err = NoError
            /\ fs[node] = "absent"
            /\ (pre.fs[node] = "absent" => Untouched /\ ~Made(last, "fs.rm"))
            /\ \A m \in Nodes :
                   /\ Beneath(node, m) => fs[m] = "absent" /\ content[m] = NoContent
                   /\ ~Beneath(node, m) => fs[m] = pre.fs[m] /\ content[m] = pre.content[m]
            /\ (repeated => Untouched)

\* a remove of a directory that held another entry
C6_Witness ==
    /\ IsCall("remove_checkpoint") /\ last.path = RawA
    /\ pre.fs[Path(RawAA)] # "absent"
    /\ Made(last, "fs.rm")
    /\ fs[Path(RawAA)] = "absent"

\* the steps of the scenario on which C7 as stated and C7 as amended agree
C7_Steps ==
    /\ scen.step = 1 =>
           /\ last.err = NoError
           /\ pre.fs[Path(RawA)] = "absent"
           /\ isdir(fs, Path(RawA)) /\ check_is_distributed_checkpoint(fs, Path(RawA))
           /\ save_sharded_strategy = <<save_ckpt_format, 1>>
    /\ scen.step = 2 =>
           last.err = NoError /\ ~Made(last, "dist_checkpointing.save")
    /\ scen.step = 3 =>
           last.err = NoError /\ SameStructure(last.ret, scen.checkpoint)
    /\ scen.step = 4 => fs[Path(RawA)] = "absent"
    /\ scen.step = 5 => last.err = Error("NotFound", "FileNotFoundError")

\* C7 as stated: save "a.ckpt" makes the complete directory "a"; the second save
\* writes nothing; load "a" returns the saved payload with its leaves on the
\* current device; remove "a" leaves it absent; the next load fails, NotFound.
C7_AsStated ==
    /\ C7_Steps
    /\ scen.step = 3 => TensorsOn(last.ret, {Cuda(last.rt.current_device)})

\* C7, amended: the same, the loaded payload having every accelerator-resident
\* leaf on the current device and its host-resident leaves on the host.
C7_Scenario ==
    /\ C7_Steps
    /\ scen.step = 3 => TensorsOn(last.ret, {Cuda(last.rt.current_device), Cpu})

\* the scenario has run to its last step
C7_Witness ==
    /\ scen.step = 5
    /\ IsCall("load_checkpoint") /\ last.path = RawA
    /\ last.err.kind = "NotFound"

OnlyCall(fn) == last.calls[CHOOSE i \in Calls(last, fn) : TRUE]
Once(fn) == Cardinality(Calls(last, fn)) = 1

\* what C12 promises of a save: the directory is made, and only then the
\* backend writes, once, into that directory with the store's strategy; the
\* directory and the directories above it exist from then on
C12_Promise ==
    LET dir == DirOf(last.path)
    IN  /\ Once("fs.makedirs") /\ Once("dist_checkpointing.save")
        /\ \A i \in Calls(last, "fs.makedirs") :
               \A j \in Calls(last, "dist_checkpointing.save") : i < j
        /\ OnlyCall("fs.makedirs").on = dir
        /\ OnlyCall("dist_checkpointing.save").on = dir
        /\ OnlyCall("dist_checkpointing.save").sharded_strategy = save_sharded_strategy
        /\ isdir(fs, dir) /\ \A m \in Above(dir) : isdir(fs, m)
        /\ last.err.kind \in {"none", "Backend"}

\* C12 as stated: a save without storage options whose directory ckpt_to_dir(P)
\* is absent or is a directory that is not complete makes the directory and
\* then has the backend write once into it.
C12_AsStated ==
    (/\ IsCall("save_checkpoint") /\ last.option = None
     /\ pre.fs[DirOf(last.path)] \in {"absent", "dir"}) => C12_Promise

\* C12, amended: a save without storage options whose directory ckpt_to_dir(P)
\* is absent or a directory that is not complete, and lies under no plain file,
\* makes the directory with the missing directories above it, without failing
\* when it is already there, and only then has the backend write, exactly once,
\* into ckpt_to_dir(P) with the store's strategy; the directory exists when the
\* backend writes.  Under a plain file the save fails as makedirs fails, and
\* the backend does not write.
C12_MakeThenWrite ==
    (/\ IsCall("save_checkpoint") /\ last.option = None
     /\ pre.fs[DirOf(last.path)] \in {"absent", "dir"}) =>
        IF \E m \in Above(DirOf(last.path)) : pre.fs[m] = "file"
            THEN /\ last.err = Error("Filesystem", "NotADirectoryError")
                 /\ ~Made(last, "dist_checkpointing.save")
                 /\ Untouched
            ELSE C12_Promise

\* a save into "a/a" that made "a" and "a/a" and wrote the checkpoint, the
\* backend not raising
C12_Witness ==
    /\ IsCall("save_checkpoint") /\ last.option = None /\ last.path = RawAACkpt
    /\ pre.fs[Path(RawA)] = "absent"
    /\ fs[Path(RawA)] = "dir" /\ fs[Path(RawAA)] = "ckpt"
    /\ Made(last, "fs.makedirs") /\ last.err = NoError

\* a save that returned without raising and without a backend write
Skipped ==
    /\ IsCall("save_checkpoint") /\ last.err = NoError
    /\ ~Made(last, "dist_checkpointing.save")

\* C13 as stated: a save is skipped only if its directory was complete when it
\* was checked; a save whose directory is absent or a directory that is not
\* complete reaches the backend write; and the backend read of a load is only
\* ever made on a complete directory.
C13_AsStated ==
    /\ Skipped => pre.fs[DirOf(last.path)] = "ckpt"
    /\ (/\ IsCall("save_checkpoint") /\ last.option = None
        /\ pre.fs[DirOf(last.path)] \in {"absent", "dir"})
           => Made(last, "dist_checkpointing.save")
    /\ (IsCall("load_checkpoint") /\ Made(last, "dist_checkpointing.load"))
           => pre.fs[FsNode(last.path)] = "ckpt"

Delegated == {"dist_checkpointing.save", "dist_checkpointing.load"}
Checks == {"fs.exists", "fs.isdir", "check_is_distributed_checkpoint"}
Delegations == {i \in DOMAIN last.calls : last.calls[i].fn \in Delegated}

\* C14: a save or load calls the backend at most once, a save only to write
\* and a load only to read; not at all when it fails with UnsupportedOption,
\* NotFound or InvalidLayout or when the save is skipped; every check of the
\* call comes before the backend call; and when the backend raises, its error is
\* the error of the call, after that one attempt and with nothing done after it.
C14_ExactlyOnce ==
    (IsCall("save_checkpoint") \/ IsCall("load_checkpoint")) =>
        /\ Cardinality(Delegations) <= 1
        /\ \A i \in Delegations :
               last.calls[i].fn = IF IsCall("save_checkpoint")
                                      THEN "dist_checkpointing.save"
                                      ELSE "dist_checkpointing.load"
        /\ last.err.kind \in {"UnsupportedOption", "NotFound", "InvalidLayout"}
               => Delegations = {}
        /\ (/\ IsCall("save_checkpoint") /\ last.option = None
            /\ pre.fs[DirOf(last.path)] = "ckpt")
               => Delegations = {} /\ last.err = NoError
        /\ \A i \in Delegations :
               \A j \in DOMAIN last.calls : last.calls[j].fn \in Checks => j < i
        /\ (/\ Delegations # {}
            /\ (last.err # NoError \/ IsCall("load_checkpoint"))
            /\ ~Made(last, "_fix_tensors_device"))
               => /\ last.err = Error("Backend", "CheckpointingException")
                  /\ Delegations = {Len(last.calls)}

\* a save whose one backend write raised, after the directory was made
C14_Witness ==
    /\ IsCall("save_checkpoint")
    /\ last.err = Error("Backend", "CheckpointingException")
    /\ Once("dist_checkpointing.save")
    /\ pre.fs[DirOf(last.path)] = "absent" /\ fs[DirOf(last.path)] = "dir"

\* C15: the store's save strategy is the pair (format given at construction, 1)
\* from construction on; no call changes the format or the strategy; and every
\* backend write carries exactly this pair.
C15_SaveStrategy ==
    /\ [](/\ save_sharded_strategy = <<save_ckpt_format, 1>>
          /\ \A i \in Calls(last, "dist_checkpointing.save") :
                 last.calls[i].sharded_strategy = <<save_ckpt_format, 1>>)
    /\ [][/\ save_ckpt_format' = save_ckpt_format
          /\ save_sharded_strategy' = save_sharded_strategy]_vars

\* a backend write of a store constructed with "zarr", made after a remove
\* and another save of that store
C15_Witness ==
    /\ IsCall("save_checkpoint") /\ Once("dist_checkpointing.save")
    /\ save_ckpt_format = "zarr"
    /\ OnlyCall("dist_checkpointing.save").sharded_strategy = <<"zarr", 1>>
    /\ last.path = RawACkpt /\ last.err = NoError
    /\ pre.fs[Path(RawA)] = "absent" /\ pre.fs[Path(RawACkpt)] = "ckpt"

\* the last call is a save to a path ending in the marker that returned
SavedWithMarker ==
    /\ IsCall("save_checkpoint") /\ last.err = NoError
    /\ Suffix(Path(last.path)) = Marker

\* C16: every filesystem query and the backend read of a load act on the path
\* as it was given, and a load of an absent path fails with NotFound whatever
\* ckpt_to_dir of that path is.  So, right after a save to P ending in the
\* marker has returned, a load of P, no entry P being there, fails with
\* NotFound, and a load of ckpt_to_dir(P) reaches the backend read on the
\* directory that holds what the save wrote.
C16_LoadRawPath ==
    /\ []((IsCall("load_checkpoint") /\ last.option = None) =>
              /\ last.calls # <<>>
              /\ \A i \in DOMAIN last.calls : last.calls[i].on = FsNode(last.path)
              /\ pre.fs[FsNode(last.path)] = "absent"
                     => last.err = Error("NotFound", "FileNotFoundError")
              /\ isdir(pre.fs, FsNode(last.path)) => Once("dist_checkpointing.load"))
    /\ [][(SavedWithMarker /\ last'.op = "load_checkpoint" /\ last'.option = None) =>
              /\ (last'.path = last.path /\ fs[FsNode(last.path)] = "absent")
                     => last'.err = Error("NotFound", "FileNotFoundError")
              /\ last'.path = Str(DirOf(last.path))
                     => /\ \E i \in DOMAIN last'.calls :
                               last'.calls[i] =
                                   Called("dist_checkpointing.load", DirOf(last.path))
                        /\ fs[DirOf(last.path)] = "ckpt"
                        /\ Skipped \/ content[DirOf(last.path)] = last.checkpoint]_vars

\* a load of "a.ckpt" that fails with NotFound while "a", the directory that
\* saves to "a.ckpt" write, is a complete checkpoint
C16_Witness ==
    /\ IsCall("load_checkpoint") /\ last.option = None /\ last.path = RawACkpt
    /\ last.err = Error("NotFound", "FileNotFoundError")
    /\ pre.fs[DirOf(RawACkpt)] = "ckpt"
    /\ pre.content[DirOf(RawACkpt)] \in SavePayloads

\* the last call is a remove of a path ending in the marker, made while the
\* directory that a save to that path writes was a complete checkpoint
RemovedWithMarker ==
    /\ IsCall("remove_checkpoint")
    /\ Suffix(Path(last.path)) = Marker
    /\ pre.fs[DirOf(last.path)] = "ckpt"

----------------------------------------------------------------------------
(* Claims about concurrent calls, under RaceSpec. *)

AllDone == \A p \in Procs : proc[p].pc = "done"
Writes(p) == {i \in DOMAIN proc[p].calls : proc[p].calls[i].fn = "dist_checkpointing.save"}

\* C17 as stated: when the processes call remove_checkpoint on the same path,
\* then however their existence checks and recursive deletes interleave, no call
\* fails, and the path is absent once all have returned.
C17_AsStated ==
    race.op = "remove_checkpoint" =>
        /\ \A p \in Procs : proc[p].err = NoError
        /\ AllDone => fs[RaceNode] = "absent"

\* C18: when the processes call save_checkpoint on the same path, no call fails
\* in fs.makedirs unless a plain file is in the way: a directory that another
\* process made is no error.  A call whose completeness check sees the
\* directory complete makes no backend write and returns; the check is no lock:
\* a call whose check sees the directory absent or not complete goes on, makes
\* the directory and calls the backend write, once, itself.
C18_ConcurrentSaves ==
    race.op = "save_checkpoint" =>
        \A p \in Procs :
            /\ proc[p].err.kind = "Filesystem" =>
                   /\ proc[p].err.exc # "FileExistsError" \/ fs[RaceNode] = "file"
                   /\ makedirs_exc(fs, RaceNode) # NoExc
            /\ (proc[p].saw = "ckpt" /\ proc[p].pc # "check_is_distributed_checkpoint") =>
                   /\ proc[p].pc = "done" /\ proc[p].err = NoError
                   /\ Writes(p) = {}
            /\ (/\ proc[p].saw \in {"absent", "dir"}
                /\ proc[p].pc \in {"writing", "done"}
                /\ proc[p].err.kind # "Filesystem") =>
                   /\ Cardinality(Writes(p)) = 1
                   /\ \E i \in DOMAIN proc[p].calls :
                          /\ proc[p].calls[i].fn = "fs.makedirs"
                          /\ \A j \in Writes(p) : i < j

\* all processes have returned from a save to "a/a.ckpt": the first had made
\* the directories and was writing when the second checked, so that the second
\* made its own backend write
C18_Witness ==
    /\ race = [op |-> "save_checkpoint", path |-> RawAACkpt]
    /\ AllDone
    /\ proc[1].saw = "absent" /\ proc[2].saw = "dir"
    /\ \A p \in {1, 2} : Writes(p) # {} /\ proc[p].err = NoError
    /\ fs[Path(RawAA)] = "ckpt"

====
